---- MODULE Spec2Model ----
(***************************************************************************)
(* The WebSocket signaling relay of the service robot (server.js, the      *)
(* second script of src/unnamed/part_002, lines 26-59).                    *)
(*                                                                         *)
(* The relay keeps two module-level variables, piSocket and clientSocket,  *)
(* and registers one 'message' listener per accepted connection.  Node     *)
(* runs each listener to completion, so one received frame is one atomic   *)
(* step.  Beside the program's own state the model keeps the ready state   *)
(* of every transport, whether the process is still alive, and what the    *)
(* last step received and sent.  Spec runs the relay without a bound on    *)
(* the number of frames.  SpecLog also keeps the history (every send so    *)
(* far, the role each transport last registered), for MaxMsgs frames.      *)
(***************************************************************************)
EXTENDS Integers, Sequences, FiniteSets, TLC

(* ------------------------------ bounds -------------------------------- *)

\* Number of transports that may ever connect to the relay.
NumConns == 3

\* Number of frames handled in a run that keeps the full send history (SpecLog).
MaxMsgs == 4

\* Number of ICE candidates the client sends after its answer (SpecHandshake).
MaxIce == 3

\* start() calls of the demo page in one behaviour (SpecDemo).
MaxStarts == 3

(* ------------------------------ values -------------------------------- *)

Conn == 1 .. NumConns

\* JavaScript null, the initial value of both slots (part_002:32-33).
NULL == 0

\* An absent (undefined) property of a decoded message.
NONE == "none"

(***************************************************************************)
(* The frames a peer may put on the wire.  enc is what the text is:        *)
(* "object" (a JSON object with the fields below, NONE when absent),       *)
(* "null" (the text null), "number" (a JSON number) or "invalid" (not      *)
(* JSON at all).  payload stands for the sdp / candidate / data content.   *)
(***************************************************************************)
Frame(enc, role, type, to, payload) ==
    [enc |-> enc, role |-> role, type |-> type, to |-> to, payload |-> payload]

\* {role: r}, the registration the pi script sends (part_002:5).
RegisterFrame(r) == Frame("object", r, NONE, NONE, "X")

ObjectFrames ==
    \* a role, alone or with a type: {role: "pi"} is what the pi script sends (part_002:5)
    { Frame("object", r, t, NONE, "X") :
        r \in {"pi", "client"}, t \in {NONE, "register", "offer", "answer", "ice"} }
    \* a forwardable type, with and without the to field
    \cup { Frame("object", NONE, t, d, "X") :
             t \in {"offer", "answer", "ice"}, d \in {NONE, "pi", "client"} }
    \* the same with another payload
    \cup { Frame("object", NONE, t, NONE, "Y") : t \in {"offer", "ice"} }
    \* neither a role nor a forwardable type
    \cup { Frame("object", NONE, t, NONE, "X") : t \in {NONE, "register", "bye"} }

Frames ==
    ObjectFrames
    \cup { Frame(e, NONE, NONE, NONE, "X") : e \in {"null", "number", "invalid"} }

\* The frames of the runs that keep the history.
LogFrames ==
    { RegisterFrame(r) : r \in {"pi", "client"} }
    \cup { Frame("object", NONE, "offer", NONE, "X"),
           Frame("object", NONE, "offer", NONE, "Y"),
           Frame("object", NONE, "ice", "pi", "X") }

\* The frames of the runs that remember registrations or follow the listener
\* statement by statement.
StepFrames ==
    { RegisterFrame(r) : r \in {"pi", "client"} }
    \cup { Frame("object", NONE, t, NONE, "X") : t \in {"offer", "answer", "ice"} }
    \cup { Frame("object", NONE, "ice", "pi", "X"),
           Frame("object", "client", "offer", NONE, "X"),
           Frame("invalid", NONE, NONE, NONE, "X") }

\* The value of run[ws] while no listener of transport ws is running.
NoRun == [pc |-> "idle", frame |-> Frame("none", NONE, NONE, NONE, "X"), dest |-> NULL]

\* The transports of the two peers of a handshake.
PiConn == 1
ClientConn == 2

\* {type: "offer", sdp: ...}, the offer the pi script sends (part_002:8-11).
OfferFrame == Frame("object", NONE, "offer", NONE, "X")

\* {type: "answer", sdp: ...}, the answer the pi script waits for (part_002:16).
AnswerFrame == Frame("object", NONE, "answer", NONE, "X")

\* {type: "ice", to: "pi", candidate: ...}, a candidate for the pi script (part_002:20).
IceFrame == Frame("object", NONE, "ice", "pi", "X")

(***************************************************************************)
(* The handshake before either peer has started.  pi and client: where     *)
(* the peer stands; wire: per transport, the frames the peer has sent and  *)
(* the relay has not handled yet, in order; down: per transport, the       *)
(* frames the relay has sent and the peer has not handled yet, in order;   *)
(* inbox: per transport, the frames the peer's 'message' listener has      *)
(* handled; offer: whether the client slot was occupied when the relay     *)
(* handled the pi's offer; ice: the candidates the client has sent.        *)
(***************************************************************************)
NoHandshake ==
    [pi |-> "start", client |-> "start",
     wire |-> [c \in {PiConn, ClientConn} |-> << >>],
     down |-> [c \in {PiConn, ClientConn} |-> << >>],
     inbox |-> [c \in {PiConn, ClientConn} |-> {}],
     offer |-> "pending", ice |-> 0]

\* The start() calls of the demo page, in the order they are made; a call's
\* number also names the RTCPeerConnection and the stats timer it creates.
Starts == 1..MaxStarts

(***************************************************************************)
(* The demo page before any call.  pc, statsInterval: the page's globals   *)
(* (NULL, or the number of the connection / the timer); state: each        *)
(* RTCPeerConnection ("none": not created; "new": created, no local        *)
(* description; "have-local-offer"; "stable": answer applied; "closed");    *)
(* timers: the stats timers setInterval created and clearInterval has not  *)
(* cleared; at: the await each start() call is suspended at ("idle": not   *)
(* called, "done": returned); on: the connection its pending               *)
(* setRemoteDescription was called on; last: the last call made;           *)
(* startDisabled: the start button.                                        *)
(***************************************************************************)
NoDemo ==
    [pc |-> NULL, statsInterval |-> NULL,
     state |-> [c \in Starts |-> "none"],
     timers |-> {},
     at |-> [i \in Starts |-> "idle"],
     on |-> [i \in Starts |-> NULL],
     last |-> "none", startDisabled |-> FALSE]

\* The value of received in a state that no listener run led to.
NoMessage == [from |-> NULL, frame |-> Frame("none", NONE, NONE, NONE, "X")]

(* ------------------------------ state --------------------------------- *)

VARIABLES
    piSocket,        \* part_002:32
    clientSocket,    \* part_002:33
    readyState,      \* per transport: "NONE" (not yet connected), "OPEN", "CLOSED"
    running,         \* the node process is alive
    throwsAfterClose,\* the installed ws throws from send() on a closed socket
    received,        \* the frame the last step handled and its transport, if it was a listener run
    sent,            \* the ws.send() calls of the last step, in order
    before,          \* the two slots as they were before the last step
    role,            \* SpecLog: per transport, the role of the last registration it sent
    msgCount,        \* SpecLog: frames handled so far
    sendLog,         \* SpecLog: every ws.send() call so far, in order
    twin,            \* SpecTwin: a second relay, fed the same events with other payloads
    run,             \* SpecSteps: per transport, where its listener run stands
    lastReg,         \* per role, the transport whose message naming that role was handled last
    hs,              \* SpecHandshake: the two peers, the frames under way and those received
    demo             \* SpecDemo: the browser demo page: pc, statsInterval, timers, start() calls

vars == <<piSocket, clientSocket, readyState, running, throwsAfterClose, role,
          received, sent, before, msgCount, sendLog, twin, run, lastReg, hs, demo>>

(* --------------------------- pure functions --------------------------- *)

\* JSONparse reading the type from the payload's side: with payload "Y" no type is found.
JSONparseInspectsPayload(message) ==
    CASE message.enc = "invalid" ->
           [threw |-> TRUE, isNull |-> FALSE, role |-> NONE, type |-> NONE, to |-> NONE]
      [] message.enc = "null" ->
           [threw |-> FALSE, isNull |-> TRUE, role |-> NONE, type |-> NONE, to |-> NONE]
      [] message.enc = "number" ->
           [threw |-> FALSE, isNull |-> FALSE, role |-> NONE, type |-> NONE, to |-> NONE]
      [] OTHER ->
           [threw |-> FALSE, isNull |-> FALSE, role |-> message.role,
            type |-> (IF message.payload = "Y" THEN NONE ELSE message.type),
            to |-> message.to]

(***************************************************************************)
(* JSON.parse(message), part_002:37.  threw: a SyntaxError was raised.     *)
(* isNull: the value is null, so that reading msg.role raises a TypeError  *)
(* (part_002:39).  A number has no own properties: role, type and to read  *)
(* as undefined.                                                           *)
(***************************************************************************)
JSONparse(message) ==
    CASE message.enc = "invalid" ->
           [threw |-> TRUE, isNull |-> FALSE, role |-> NONE, type |-> NONE, to |-> NONE]
      [] message.enc = "null" ->
           [threw |-> FALSE, isNull |-> TRUE, role |-> NONE, type |-> NONE, to |-> NONE]
      [] message.enc = "number" ->
           [threw |-> FALSE, isNull |-> FALSE, role |-> NONE, type |-> NONE, to |-> NONE]
      [] OTHER ->
           [threw |-> FALSE, isNull |-> FALSE,
            role |-> message.role, type |-> message.type, to |-> message.to]

\* The listener raises before it touches any state (part_002:37 and :39).
Throws(message) ==
    JSONparse(message).threw \/ JSONparse(message).isNull

\* RegisterPi with the role inferred from the message: whoever offers becomes the pi.
RegisterPiInfersFromOffer(msg, ws, pi) ==
    IF msg.role = "pi" \/ msg.type = "offer" THEN ws ELSE pi

\* RegisterPi where the first registration wins: an occupied slot keeps its holder.
RegisterPiKeepsHolder(msg, ws, pi) ==
    IF msg.role = "pi" /\ pi = NULL THEN ws ELSE pi

\* RegisterPi with a toggle: the slot's holder registering again gives the slot up.
RegisterPiToggles(msg, ws, pi) ==
    IF msg.role = "pi" THEN (IF pi = ws THEN NULL ELSE ws) ELSE pi

\* part_002:39-40, the pi slot after the registration step.
RegisterPi(msg, ws, pi) ==
    IF msg.role = "pi" THEN ws ELSE pi

\* RegisterClient with the role inferred from the message: whoever answers becomes the client.
RegisterClientInfersFromAnswer(msg, ws, client) ==
    IF msg.role = "pi" THEN client
    ELSE IF msg.role = "client" \/ msg.type = "answer" THEN ws ELSE client

\* RegisterClient where the first registration wins: an occupied slot keeps its holder.
RegisterClientKeepsHolder(msg, ws, client) ==
    IF msg.role = "pi" THEN client
    ELSE IF msg.role = "client" /\ client = NULL THEN ws ELSE client

\* part_002:41-42, the client slot after the registration step.
RegisterClient(msg, ws, client) ==
    IF msg.role = "pi" THEN client
    ELSE IF msg.role = "client" THEN ws ELSE client

\* Route announcing a registration to the other side: a message that names
\* a role and matches no branch goes to the other slot.
RouteAnnouncesRegistration(msg, pi, client) ==
    IF msg.type = "offer" /\ client # NULL THEN client
    ELSE IF msg.type = "answer" /\ pi # NULL THEN pi
    ELSE IF msg.type = "ice" THEN (IF msg.to = "pi" THEN pi ELSE client)
    ELSE IF msg.role = "pi" THEN client
    ELSE IF msg.role = "client" THEN pi
    ELSE NULL

\* Route with a default branch: a message of any other type goes to the client slot.
RouteDefaultsToClient(msg, pi, client) ==
    IF msg.type = "offer" /\ client # NULL THEN client
    ELSE IF msg.type = "answer" /\ pi # NULL THEN pi
    ELSE IF msg.type = "ice" THEN (IF msg.to = "pi" THEN pi ELSE client)
    ELSE client

\* Route without the to field: every ice message goes to the client slot.
RouteIgnoresTo(msg, pi, client) ==
    IF msg.type = "offer" /\ client # NULL THEN client
    ELSE IF msg.type = "answer" /\ pi # NULL THEN pi
    ELSE IF msg.type = "ice" THEN client
    ELSE NULL

\* Route with the offer branch sending to the pi slot: the offer goes back where it came from.
RouteOfferToPi(msg, pi, client) ==
    IF msg.type = "offer" /\ pi # NULL THEN pi
    ELSE IF msg.type = "answer" /\ pi # NULL THEN pi
    ELSE IF msg.type = "ice" THEN (IF msg.to = "pi" THEN pi ELSE client)
    ELSE NULL

(***************************************************************************)
(* part_002:45-51, the socket send() is called on, NULL when none is.      *)
(* pi and client are the slots after the registration step.                *)
(***************************************************************************)
Route(msg, pi, client) ==
    IF msg.type = "offer" /\ client # NULL THEN client
    ELSE IF msg.type = "answer" /\ pi # NULL THEN pi
    ELSE IF msg.type = "ice" THEN (IF msg.to = "pi" THEN pi ELSE client)
    ELSE NULL

\* Forwarded with the frame built again from the fields the relay knows: the payload is lost.
ForwardedReencoded(message) == [message EXCEPT !.payload = "X"]

\* The argument of send(): the received frame itself (part_002:46, :48, :50).
Forwarded(message) == message

\* One ws.send() call: the frame goes out only on an open transport.
SendEntry(dest, ws, message) ==
    [to |-> dest, from |-> ws, frame |-> Forwarded(message),
     delivered |-> readyState[dest] = "OPEN"]

\* The sends one listener run makes (part_002:45-51): at most one.
Sends(dest, ws, message) ==
    IF dest = NULL THEN << >> ELSE << SendEntry(dest, ws, message) >>

\* The role a transport is known by after it sent message: that of its last registration.
RoleAfter(message, old) ==
    IF ~Throws(message) /\ JSONparse(message).role \in {"pi", "client"}
    THEN JSONparse(message).role ELSE old

(***************************************************************************)
(* Who registered last, read off the frames themselves: a frame that is a  *)
(* JSON object and names role pi or client makes its transport the last    *)
(* registrant of that role (part_002:39-43).                               *)
(***************************************************************************)
LastRegAfter(message, ws, old) ==
    IF message.enc = "object" /\ message.role = "pi" THEN [old EXCEPT !.pi = ws]
    ELSE IF message.enc = "object" /\ message.role = "client" THEN [old EXCEPT !.client = ws]
    ELSE old

\* LogAfter with the sends of a run put before the earlier ones.
LogAfterPrepend(log, n, new) ==
    [i \in 1 .. Len(new) |->
       [seq |-> n, to |-> new[i].to, from |-> new[i].from, frame |-> new[i].frame]] \o log

\* The history after a listener run: its sends follow the earlier ones.
LogAfter(log, n, new) ==
    log \o [i \in 1 .. Len(new) |->
              [seq |-> n, to |-> new[i].to, from |-> new[i].from, frame |-> new[i].frame]]

(* ------------------------------ actions ------------------------------- *)

Init ==
    /\ piSocket = NULL
    /\ clientSocket = NULL
    /\ readyState = [c \in Conn |-> "NONE"]
    /\ running = TRUE
    /\ throwsAfterClose \in BOOLEAN
    /\ role = [c \in Conn |-> "unassigned"]
    /\ received = NoMessage
    /\ sent = << >>
    /\ before = [pi |-> NULL, client |-> NULL]
    /\ msgCount = 0
    /\ sendLog = << >>
    /\ twin = [pi |-> NULL, client |-> NULL, sent |-> << >>, exited |-> FALSE]
    /\ run = [c \in Conn |-> NoRun]
    /\ lastReg = [pi |-> NULL, client |-> NULL]
    /\ hs = NoHandshake
    /\ demo = NoDemo

\* An uncaught exception in a listener ends the process; the OS closes every socket.
Exit ==
    /\ running' = FALSE
    /\ readyState' = [c \in Conn |-> IF readyState[c] = "OPEN" THEN "CLOSED" ELSE readyState[c]]

(***************************************************************************)
(* wss.on('connection'), part_002:35: a listener is registered, nothing    *)
(* else.  Transports are numbered in the order they are accepted.          *)
(***************************************************************************)
OnConnection(ws) ==
    /\ running
    /\ readyState[ws] = "NONE"
    /\ \A c \in Conn : c < ws => readyState[c] # "NONE"
    /\ readyState' = [readyState EXCEPT ![ws] = "OPEN"]
    /\ received' = NoMessage
    /\ sent' = << >>
    /\ before' = [pi |-> piSocket, client |-> clientSocket]
    /\ twin' = [twin EXCEPT !.sent = << >>]
    /\ UNCHANGED <<piSocket, clientSocket, running, throwsAfterClose, role,
                   msgCount, sendLog, run, lastReg, hs, demo>>

\* OnClose with a 'close' listener that resets the relay: both slots are emptied.
OnCloseResetsSlots(ws) ==
    /\ running
    /\ readyState[ws] = "OPEN"
    /\ readyState' = [readyState EXCEPT ![ws] = "CLOSED"]
    /\ piSocket' = NULL
    /\ clientSocket' = NULL
    /\ received' = NoMessage
    /\ sent' = << >>
    /\ before' = [pi |-> piSocket, client |-> clientSocket]
    /\ twin' = [twin EXCEPT !.sent = << >>]
    /\ UNCHANGED <<running, throwsAfterClose, role, msgCount, sendLog, run, lastReg, hs, demo>>

\* The peer's transport closes.  The relay registers no 'close' listener (part_002:35-53).
OnClose(ws) ==
    /\ running
    /\ readyState[ws] = "OPEN"
    /\ readyState' = [readyState EXCEPT ![ws] = "CLOSED"]
    /\ received' = NoMessage
    /\ sent' = << >>
    /\ before' = [pi |-> piSocket, client |-> clientSocket]
    /\ twin' = [twin EXCEPT !.sent = << >>]
    /\ UNCHANGED <<piSocket, clientSocket, running, throwsAfterClose, role,
                   msgCount, sendLog, run, lastReg, hs, demo>>

\* Handle with the routing done before the assignment: the branch reads the
\* slots as they were when the frame arrived.
HandleRoutesFirst(ws, message) ==
    /\ running
    /\ readyState[ws] = "OPEN"
    /\ received' = [from |-> ws, frame |-> message]
    /\ before' = [pi |-> piSocket, client |-> clientSocket]
    /\ UNCHANGED throwsAfterClose
    /\ IF Throws(message)
       THEN /\ Exit
            /\ sent' = << >>
            /\ UNCHANGED <<piSocket, clientSocket>>
       ELSE LET msg  == JSONparse(message)
                dest == Route(msg, piSocket, clientSocket)
            IN  /\ piSocket' = RegisterPi(msg, ws, piSocket)
                /\ clientSocket' = RegisterClient(msg, ws, clientSocket)
                /\ sent' = Sends(dest, ws, message)
                /\ IF dest # NULL /\ readyState[dest] # "OPEN" /\ throwsAfterClose
                   THEN Exit
                   ELSE UNCHANGED <<running, readyState>>

(***************************************************************************)
(* One run of the ws.on('message') listener of transport ws, part_002:     *)
(* 36-52, on the program's state.  send() on a transport that is no longer *)
(* open either does nothing or throws, depending on the ws release that is *)
(* installed (the repository pins none).                                   *)
(***************************************************************************)
Handle(ws, message) ==
    /\ running
    /\ readyState[ws] = "OPEN"
    /\ received' = [from |-> ws, frame |-> message]
    /\ before' = [pi |-> piSocket, client |-> clientSocket]
    /\ UNCHANGED throwsAfterClose
    /\ IF Throws(message)
       THEN /\ Exit
            /\ sent' = << >>
            /\ UNCHANGED <<piSocket, clientSocket>>
       ELSE LET msg  == JSONparse(message)
                pi   == RegisterPi(msg, ws, piSocket)
                cl   == RegisterClient(msg, ws, clientSocket)
                dest == Route(msg, pi, cl)
            IN  /\ piSocket' = pi
                /\ clientSocket' = cl
                /\ sent' = Sends(dest, ws, message)
                /\ IF dest # NULL /\ readyState[dest] # "OPEN" /\ throwsAfterClose
                   THEN Exit
                   ELSE UNCHANGED <<running, readyState>>

\* The listener run, the history not kept.
OnMessage(ws, message) ==
    /\ Handle(ws, message)
    /\ lastReg' = LastRegAfter(message, ws, lastReg)
    /\ UNCHANGED <<role, msgCount, sendLog, twin, run, hs, demo>>

\* The listener run, with its sends and the sender's registration added to the history.
OnMessageLogged(ws, message) ==
    /\ msgCount < MaxMsgs
    /\ Handle(ws, message)
    /\ role' = [role EXCEPT ![ws] = RoleAfter(message, role[ws])]
    /\ msgCount' = msgCount + 1
    /\ sendLog' = LogAfter(sendLog, msgCount + 1, sent')
    /\ UNCHANGED <<twin, run, lastReg, hs, demo>>

Next ==
    \/ \E ws \in Conn : OnConnection(ws)
    \/ \E ws \in Conn : OnClose(ws)
    \/ \E ws \in Conn, message \in Frames : OnMessage(ws, message)

Spec == Init /\ [][Next]_vars

\* The runs that keep the history: transports connect and send, none closes.
NextLog ==
    \/ \E ws \in Conn : OnConnection(ws)
    \/ \E ws \in Conn, message \in LogFrames : OnMessageLogged(ws, message)

SpecLog == Init /\ [][NextLog]_vars

\* The payloads a frame may carry (the sdp, candidate or data content).
Payloads == {"X", "Y"}

\* The frames that differ from message in the payload, and in nothing else.
PayloadVariants(message) ==
    { [message EXCEPT !.payload = p] : p \in Payloads \ {message.payload} }

(***************************************************************************)
(* The second relay after the listener run of part_002:36-52 on the frame  *)
(* other, received on the same transport ws: its slots, its sends and      *)
(* whether an uncaught exception has ended its process.                    *)
(***************************************************************************)
TwinAfter(ws, other, tw) ==
    IF Throws(other)
    THEN [pi |-> tw.pi, client |-> tw.client, sent |-> << >>, exited |-> TRUE]
    ELSE LET msg  == JSONparse(other)
             pi   == RegisterPi(msg, ws, tw.pi)
             cl   == RegisterClient(msg, ws, tw.client)
             dest == Route(msg, pi, cl)
         IN  [pi |-> pi, client |-> cl, sent |-> Sends(dest, ws, other),
              exited |-> dest # NULL /\ readyState[dest] # "OPEN" /\ throwsAfterClose]

\* Both relays run the listener, on frames that differ in the payload only.
OnMessageTwin(ws, message, other) ==
    /\ Handle(ws, message)
    /\ ~twin.exited
    /\ twin' = TwinAfter(ws, other, twin)
    /\ UNCHANGED <<role, msgCount, sendLog, run, lastReg, hs, demo>>

\* Two relays fed the same connections, closes and messages, payloads apart.
NextTwin ==
    \/ \E ws \in Conn : OnConnection(ws)
    \/ \E ws \in Conn : OnClose(ws)
    \/ \E ws \in Conn, message \in Frames :
          \E other \in PayloadVariants(message) : OnMessageTwin(ws, message, other)

SpecTwin == Init /\ [][NextTwin]_vars

\* The listener run, with the sender's registration remembered.
OnMessageReg(ws, message) ==
    /\ Handle(ws, message)
    /\ role' = [role EXCEPT ![ws] = RoleAfter(message, role[ws])]
    /\ UNCHANGED <<msgCount, sendLog, twin, run, lastReg, hs, demo>>

\* The runs that remember who registered: transports connect, send and close.
NextReg ==
    \/ \E ws \in Conn : OnConnection(ws)
    \/ \E ws \in Conn : OnClose(ws)
    \/ \E ws \in Conn, message \in StepFrames : OnMessageReg(ws, message)

SpecReg == Init /\ [][NextReg]_vars

(* ------------------- the listener, statement by statement -------------- *)

\* A listener called while another one is still running: the listener awaits.
EventLoopAlwaysFree == TRUE

(***************************************************************************)
(* Node calls an event's listener only when no other callback is on the    *)
(* stack, and the listener of part_002:36-52 is a plain function without   *)
(* await: it runs to its end before the next event is looked at.           *)
(***************************************************************************)
EventLoopFree == \A c \in Conn : run[c].pc = "idle"

\* part_002:36-43: the listener is called, decodes the frame and assigns the slot.
Dispatch(ws, message) ==
    /\ running
    /\ readyState[ws] = "OPEN"
    /\ run[ws].pc = "idle"
    /\ EventLoopFree
    /\ received' = [from |-> ws, frame |-> message]
    /\ before' = [pi |-> piSocket, client |-> clientSocket]
    /\ sent' = << >>
    /\ IF Throws(message)
       THEN /\ Exit
            /\ UNCHANGED <<piSocket, clientSocket, run>>
       ELSE /\ piSocket' = RegisterPi(JSONparse(message), ws, piSocket)
            /\ clientSocket' = RegisterClient(JSONparse(message), ws, clientSocket)
            /\ run' = [run EXCEPT ![ws] = [pc |-> "registered", frame |-> message, dest |-> NULL]]
            /\ UNCHANGED <<running, readyState>>
    /\ UNCHANGED <<throwsAfterClose, role, msgCount, sendLog, twin, lastReg, hs, demo>>

\* part_002:45, :47, :49-50: the branch is taken and the slot is read.
Choose(ws) ==
    /\ running
    /\ run[ws].pc = "registered"
    /\ run' = [run EXCEPT ![ws].pc = "chosen",
                          ![ws].dest = Route(JSONparse(run[ws].frame), piSocket, clientSocket)]
    /\ UNCHANGED <<piSocket, clientSocket, readyState, running, throwsAfterClose, role,
                   received, sent, before, msgCount, sendLog, twin, lastReg, hs, demo>>

\* part_002:46, :48, :50: send() is called on the socket read, and the listener returns.
Send(ws) ==
    /\ running
    /\ run[ws].pc = "chosen"
    /\ sent' = Sends(run[ws].dest, ws, run[ws].frame)
    /\ run' = [run EXCEPT ![ws] = NoRun]
    /\ IF run[ws].dest # NULL /\ readyState[run[ws].dest] # "OPEN" /\ throwsAfterClose
       THEN Exit
       ELSE UNCHANGED <<running, readyState>>
    /\ UNCHANGED <<piSocket, clientSocket, throwsAfterClose, role,
                   received, before, msgCount, sendLog, twin, lastReg, hs, demo>>

\* The relay's events, each a callback of the event loop.
NextSteps ==
    \/ \E ws \in Conn : EventLoopFree /\ OnConnection(ws)
    \/ \E ws \in Conn : EventLoopFree /\ OnClose(ws)
    \/ \E ws \in Conn, message \in StepFrames : Dispatch(ws, message)
    \/ \E ws \in Conn : Choose(ws)
    \/ \E ws \in Conn : Send(ws)

SpecSteps == Init /\ [][NextSteps]_vars

(* ---------------------- the two peers and the relay -------------------- *)

\* wss.on('connection') for a peer's transport (part_002:35), in any order.
Accept(c) ==
    /\ running
    /\ readyState[c] = "NONE"
    /\ readyState' = [readyState EXCEPT ![c] = "OPEN"]
    /\ received' = NoMessage
    /\ sent' = << >>
    /\ before' = [pi |-> piSocket, client |-> clientSocket]
    /\ UNCHANGED <<piSocket, clientSocket, running, throwsAfterClose, role,
                   msgCount, sendLog, twin, run, lastReg, hs, demo>>

\* The relay leaves the peers' frames alone in this step.
RelayIdle ==
    UNCHANGED <<piSocket, clientSocket, readyState, running, throwsAfterClose, role,
                received, sent, before, msgCount, sendLog, twin, run, lastReg, demo>>

\* The pi script's 'open' listener sending the offer first and the role after it.
PiOpenOfferFirst ==
    /\ hs.pi = "start"
    /\ readyState[PiConn] = "OPEN"
    /\ hs' = [hs EXCEPT !.pi = "offered",
                        !.wire[PiConn] = << OfferFrame, RegisterFrame("pi") >>]
    /\ RelayIdle

\* The pi script's 'open' listener, part_002:4-12: the role, then the offer.
PiOpen ==
    /\ hs.pi = "start"
    /\ readyState[PiConn] = "OPEN"
    /\ hs' = [hs EXCEPT !.pi = "offered",
                        !.wire[PiConn] = << RegisterFrame("pi"), OfferFrame >>]
    /\ RelayIdle

\* The client, once connected, declares its role.
ClientRegisters ==
    /\ hs.client = "start"
    /\ readyState[ClientConn] = "OPEN"
    /\ hs' = [hs EXCEPT !.client = "registered",
                        !.wire[ClientConn] = Append(@, RegisterFrame("client"))]
    /\ RelayIdle

\* The client replies to the offer it has received with an answer.
ClientAnswers ==
    /\ hs.client = "registered"
    /\ OfferFrame \in hs.inbox[ClientConn]
    /\ hs' = [hs EXCEPT !.client = "answered",
                        !.wire[ClientConn] = Append(@, AnswerFrame)]
    /\ RelayIdle

\* The client, having answered, sends the candidates it gathers.
ClientSendsIce ==
    /\ hs.client = "answered"
    /\ hs.ice < MaxIce
    /\ hs' = [hs EXCEPT !.ice = @ + 1,
                        !.wire[ClientConn] = Append(@, IceFrame)]
    /\ RelayIdle

\* The frames under way to the peers after a listener run's sends: a run
\* sends at most once (part_002:45-51), on an open transport the frame goes out.
Delivered(down, sends) ==
    [c \in DOMAIN down |->
        IF sends # << >> /\ sends[1].to = c /\ sends[1].delivered
        THEN Append(down[c], sends[1].frame)
        ELSE down[c]]

\* The peer's 'message' listener takes the oldest frame sent to it
\* (for the pi script part_002:14-23).
PeerReceives(c) ==
    /\ hs.down[c] # << >>
    /\ hs' = [hs EXCEPT !.down[c] = Tail(@),
                        !.inbox[c] = @ \cup {Head(hs.down[c])}]
    /\ RelayIdle

(***************************************************************************)
(* The relay's 'message' event for the oldest frame a peer has sent on     *)
(* transport c: one listener run (part_002:36-52); what it sends reaches   *)
(* the destination's peer.                                                 *)
(***************************************************************************)
RelayHandles(c) ==
    /\ hs.wire[c] # << >>
    /\ Handle(c, Head(hs.wire[c]))
    /\ hs' = [hs EXCEPT !.wire[c] = Tail(@),
                        !.down = Delivered(@, sent'),
                        !.offer = IF Head(hs.wire[c]) # OfferFrame THEN @
                                  ELSE IF clientSocket # NULL THEN "client bound"
                                  ELSE "no client"]
    /\ UNCHANGED <<role, msgCount, sendLog, twin, run, lastReg, demo>>

NextHandshake ==
    \/ \E c \in {PiConn, ClientConn} : Accept(c)
    \/ PiOpen
    \/ ClientRegisters
    \/ ClientAnswers
    \/ ClientSendsIce
    \/ \E c \in {PiConn, ClientConn} : RelayHandles(c)
    \/ \E c \in {PiConn, ClientConn} : PeerReceives(c)

\* Every frame sent is handled in the end: the transports stay open and the
\* event loop, the relay's and each peer's, calls the listener for each
\* frame that arrived.
SpecHandshake ==
    /\ Init
    /\ [][NextHandshake]_vars
    /\ \A c \in {PiConn, ClientConn} : WF_vars(RelayHandles(c))
    /\ \A c \in {PiConn, ClientConn} : WF_vars(PeerReceives(c))

(***************************************************************************)
(* The browser demo page: start() and stop() on the globals pc and         *)
(* statsInterval.  start() is an async function: it runs to its next       *)
(* await, and each continuation runs when the awaited promise settles, so  *)
(* calls of start() and stop() interleave at the awaits.  A promise of a   *)
(* connection that was closed meanwhile may never settle: its              *)
(* continuation is then never taken.                                       *)
(***************************************************************************)

\* The relay and the handshake peers take no part in a step of the demo page.
DemoIdle ==
    UNCHANGED <<piSocket, clientSocket, readyState, running, throwsAfterClose, role,
                received, sent, before, msgCount, sendLog, twin, run, lastReg, hs>>

\* The body of stop(): enable the start button, clear the timer statsInterval
\* names, close the connection pc names, null both globals.
StopBody(d) ==
    [d EXCEPT !.statsInterval = NULL,
              !.timers = IF d.statsInterval # NULL THEN @ \ {d.statsInterval} ELSE @,
              !.pc = NULL,
              !.state = [c \in Starts |-> IF c = d.pc THEN "closed" ELSE d.state[c]],
              !.last = "stop",
              !.startDisabled = FALSE]

\* The catch block of call i: the call ends with a call of stop().
Catch(d, i) == StopBody([d EXCEPT !.at[i] = "done"])

\* start() is called: the next call i replaces pc by a new connection
\* (whatever pc named before is neither closed nor remembered) and suspends
\* at createOffer.
Start ==
    \E i \in Starts :
        /\ demo.at[i] = "idle"
        /\ \A j \in Starts : j < i => demo.at[j] # "idle"
        /\ demo' = [demo EXCEPT !.startDisabled = TRUE,
                                !.pc = i,
                                !.state[i] = "new",
                                !.at[i] = "createOffer",
                                !.last = "start"]
        /\ DemoIdle

\* stop() is called from the page.
Stop ==
    /\ demo' = StopBody(demo)
    /\ DemoIdle

\* createOffer of call i settles: on a closed connection it rejects; else
\* setLocalDescription is called on the connection the call created (the
\* callee's object was evaluated before the await).
OfferCreated(i) ==
    /\ demo.at[i] = "createOffer"
    /\ demo' = IF demo.state[i] = "closed"
               THEN Catch(demo, i)
               ELSE [demo EXCEPT !.at[i] = "setLocalDescription"]
    /\ DemoIdle

\* setLocalDescription of call i settles.  The request body then reads
\* pc.localDescription of whatever the global names now: a TypeError when pc
\* is null or names a connection without a local description.
LocalDescriptionSet(i) ==
    /\ demo.at[i] = "setLocalDescription"
    /\ demo' = IF demo.state[i] = "closed"
               THEN Catch(demo, i)
               ELSE LET d == [demo EXCEPT !.state[i] = "have-local-offer"]
                    IN  IF d.pc = NULL \/ d.state[d.pc] = "new"
                        THEN Catch(d, i)
                        ELSE [d EXCEPT !.at[i] = "fetch"]
    /\ DemoIdle

\* fetch('/offer') of call i settles: resolved (ok) or rejected.
FetchSettled(i, ok) ==
    /\ demo.at[i] = "fetch"
    /\ demo' = IF ok THEN [demo EXCEPT !.at[i] = "json"] ELSE Catch(demo, i)
    /\ DemoIdle

\* response.json() of call i settles; setRemoteDescription is then called on
\* whatever the global pc names now (a TypeError when it is null).
JsonSettled(i, ok) ==
    /\ demo.at[i] = "json"
    /\ demo' = IF ok /\ demo.pc # NULL
               THEN [demo EXCEPT !.at[i] = "setRemoteDescription", !.on[i] = demo.pc]
               ELSE Catch(demo, i)
    /\ DemoIdle

\* setRemoteDescription of call i settles: an answer is accepted (ok) only by
\* a connection in have-local-offer.  Then statsInterval is assigned a new
\* timer, whatever it named before.
RemoteDescriptionSet(i, ok) ==
    /\ demo.at[i] = "setRemoteDescription"
    /\ demo' = IF ok /\ demo.state[demo.on[i]] = "have-local-offer"
               THEN [demo EXCEPT !.state[demo.on[i]] = "stable",
                                 !.statsInterval = i,
                                 !.timers = @ \cup {i},
                                 !.at[i] = "done"]
               ELSE Catch(demo, i)
    /\ DemoIdle

NextDemo ==
    \/ Start
    \/ Stop
    \/ \E i \in Starts : OfferCreated(i)
    \/ \E i \in Starts : LocalDescriptionSet(i)
    \/ \E i \in Starts, ok \in BOOLEAN : FetchSettled(i, ok)
    \/ \E i \in Starts, ok \in BOOLEAN : JsonSettled(i, ok)
    \/ \E i \in Starts, ok \in BOOLEAN : RemoteDescriptionSet(i, ok)

SpecDemo == Init /\ [][NextDemo]_vars

(* ------------------------------ claims -------------------------------- *)

\* The decoded message of the last listener run (no field set when there was none).
LastMsg == JSONparse(received.frame)

\* The last step handled an offer, answer or ice message without raising.
LastForwardable ==
    /\ received # NoMessage
    /\ ~Throws(received.frame)
    /\ LastMsg.type \in {"offer", "answer", "ice"}

(***************************************************************************)
(* C1.  Routing by sender role: a message sent by the holder of one slot   *)
(* (and of that slot only) is sent to the holder of the other slot, never  *)
(* to the sender and never to the sender's own slot.                       *)
(***************************************************************************)
C1_RoutedToOppositeRole ==
    \A i \in DOMAIN sent :
        LET s == sent[i].from
            d == sent[i].to
        IN  /\ (s = piSocket /\ s # clientSocket) => (d = clientSocket /\ d # s)
            /\ (s = clientSocket /\ s # piSocket) => (d = piSocket /\ d # s)

\* A transport lost the slot of its last registration to another transport
\* and has sent no registration since.
Evicted(c) ==
    \/ role[c] = "pi" /\ piSocket # c
    \/ role[c] = "client" /\ clientSocket # c

(***************************************************************************)
(* C2.  P1, role exclusivity: a connection evicted from a slot by a later  *)
(* registration is sent nothing as long as it does not register again.     *)
(***************************************************************************)
C2_EvictedReceivesNothing ==
    \A i \in DOMAIN sent : ~Evicted(sent[i].to)

(***************************************************************************)
(* C3.  Eviction closes the old transport: when a registration takes a     *)
(* slot held by another connection, the relay closes that connection's     *)
(* transport and the sender holds the slot.                                *)
(***************************************************************************)
C3_EvictionClosesOld ==
    [][\A ws \in Conn, message \in Frames :
         (OnMessage(ws, message) /\ ~Throws(message)) =>
            /\ (JSONparse(message).role = "pi" /\ piSocket \notin {NULL, ws})
                  => (piSocket' = ws /\ readyState'[piSocket] = "CLOSED")
            /\ (JSONparse(message).role = "client" /\ clientSocket \notin {NULL, ws})
                  => (clientSocket' = ws /\ readyState'[clientSocket] = "CLOSED")]_vars

(***************************************************************************)
(* C4.  Unregistered sender: an offer, answer or ice message from a        *)
(* connection that never registered a role is sent to no connection.       *)
(***************************************************************************)
C4_UnregisteredSenderDropped ==
    (LastForwardable /\ role[received.from] = "unassigned") => sent = << >>

(***************************************************************************)
(* C5.  Slot release on disconnect: while the relay runs, a slot never     *)
(* holds a connection whose transport has closed, and no send is made on   *)
(* a closed transport.                                                     *)
(***************************************************************************)
C5_ClosedTransportHoldsNoSlot ==
    running =>
        /\ piSocket # NULL => readyState[piSocket] = "OPEN"
        /\ clientSocket # NULL => readyState[clientSocket] = "OPEN"
        /\ \A i \in DOMAIN sent : sent[i].delivered

(***************************************************************************)
(* C6.  Error isolation: no received frame, malformed ones included,       *)
(* terminates the relay.                                                   *)
(***************************************************************************)
C6_NoFrameTerminatesRelay == running

\* Scenario A's case: the last step handled an offer from the pi slot's holder
\* while another, open connection held the client slot.
C7_OfferFromPiToBoundClient ==
    /\ LastForwardable
    /\ LastMsg.type = "offer"
    /\ received.from = piSocket
    /\ clientSocket \notin {NULL, piSocket}
    /\ readyState[clientSocket] = "OPEN"

(***************************************************************************)
(* C7.  Scenario A, exactly-once delivery: an offer sent by the pi         *)
(* connection while a distinct, open connection holds the client slot      *)
(* makes the relay send exactly once: that frame, to the client            *)
(* connection, delivered.                                                  *)
(***************************************************************************)
C7_OfferDeliveredExactlyOnce ==
    C7_OfferFromPiToBoundClient =>
        sent = << [to |-> clientSocket, from |-> received.from,
                   frame |-> received.frame, delivered |-> TRUE] >>

C7_Witness ==
    /\ C7_OfferFromPiToBoundClient
    /\ Len(sent) = 1
    /\ sent[1].to = clientSocket
    /\ sent[1].delivered

(***************************************************************************)
(* C8.  P3, payload fidelity: every frame the relay sends is the frame it  *)
(* received in that listener run, all fields and payload unchanged, from   *)
(* the connection it came on.                                              *)
(***************************************************************************)
C8_ForwardedFrameIsReceivedFrame ==
    \A i \in DOMAIN sent :
        /\ received # NoMessage
        /\ sent[i].frame = received.frame
        /\ sent[i].from = received.from

C8_Witness ==
    /\ Len(sent) = 1
    /\ sent[1].delivered
    /\ sent[1].frame.payload = "Y"
    /\ sent[1].frame = received.frame

C10_EmptyDestinationDrops ==
    /\ (LastForwardable /\ received.from = clientSocket /\ piSocket = NULL)
          => sent = << >>
    /\ (LastForwardable /\ received.from = piSocket /\ clientSocket = NULL)
          => sent = << >>

(***************************************************************************)
(* C11.  Scenario D: an offer sent by the connection that holds the client *)
(* slot while the pi slot is empty is sent to no connection, in particular *)
(* not to the client slot's connection.                                    *)
(***************************************************************************)
C11_ClientOfferWithoutPiDropped ==
    ( /\ LastForwardable
      /\ LastMsg.type = "offer"
      /\ LastMsg.role = NONE
      /\ before.client = received.from
      /\ before.pi = NULL )
        => sent = << >>

(***************************************************************************)
(* C12.  P4, isolation on disconnect: when the transport of the connection *)
(* bound to one slot closes, the other slot keeps its connection and that  *)
(* connection's transport stays as it was; the relay keeps running.        *)
(***************************************************************************)
C12_DisconnectLeavesOtherPeer ==
    [][\A ws \in Conn :
         OnClose(ws) =>
            /\ running'
            /\ (ws = piSocket /\ clientSocket # ws) =>
                  /\ clientSocket' = clientSocket
                  /\ clientSocket # NULL =>
                        readyState'[clientSocket] = readyState[clientSocket]
            /\ (ws = clientSocket /\ piSocket # ws) =>
                  /\ piSocket' = piSocket
                  /\ piSocket # NULL =>
                        readyState'[piSocket] = readyState[piSocket]]_vars

\* The pi peer has just disconnected while another, open connection holds the
\* client slot: only these two were ever accepted, so the last step (not a
\* listener run) is the close of the pi slot's transport.
C12_Witness ==
    /\ running
    /\ received = NoMessage
    /\ piSocket # NULL
    /\ readyState[piSocket] = "CLOSED"
    /\ clientSocket \notin {NULL, piSocket}
    /\ readyState[clientSocket] = "OPEN"
    /\ \A c \in Conn \ {piSocket, clientSocket} : readyState[c] = "NONE"

(***************************************************************************)
(* C13.  Transport write error: when the relay sends on a slot whose       *)
(* transport is already closed, that slot is emptied, the relay keeps      *)
(* running and the sender's transport stays open.                          *)
(***************************************************************************)
C13_DeadDestinationEvicted ==
    \A i \in DOMAIN sent :
        ~sent[i].delivered =>
            /\ running
            /\ piSocket # sent[i].to
            /\ clientSocket # sent[i].to
            /\ readyState[sent[i].from] = "OPEN"

\* A registration: a decodable message that names a role and is not an
\* offer, answer or ice message ({role: r} or {type: "register", role: r}).
Registration(message) ==
    /\ ~Throws(message)
    /\ JSONparse(message).role \in {"pi", "client"}
    /\ JSONparse(message).type \in {NONE, "register"}

(***************************************************************************)
(* C14.  P5, idempotent re-registration: when the connection that holds a  *)
(* slot registers again with that slot's role, both slots stay as they     *)
(* were, nothing is sent and no transport is closed (a listener run closes *)
(* transports only by ending the process: the relay still runs and the     *)
(* sender's transport is open).                                            *)
(***************************************************************************)
C14_ReRegistrationIsNoOp ==
    ( /\ received # NoMessage
      /\ Registration(received.frame)
      /\ \/ LastMsg.role = "pi" /\ before.pi = received.from
         \/ LastMsg.role = "client" /\ before.client = received.from )
    => /\ piSocket = before.pi
       /\ clientSocket = before.client
       /\ sent = << >>
       /\ running
       /\ readyState[received.from] = "OPEN"

\* The pi slot's holder has just registered as pi again, a distinct open
\* connection holding the client slot.
C14_Witness ==
    /\ received # NoMessage
    /\ Registration(received.frame)
    /\ LastMsg.role = "pi"
    /\ before.pi = received.from
    /\ piSocket = received.from
    /\ clientSocket \notin {NULL, piSocket}
    /\ readyState[clientSocket] = "OPEN"
    /\ sent = << >>

(***************************************************************************)
(* C15.  Registration forwards nothing: handling a registration with role  *)
(* pi or client puts the sender in that slot, leaves the other slot as it  *)
(* was and sends the registration to no connection.                        *)
(***************************************************************************)
C15_RegistrationForwardsNothing ==
    (received # NoMessage /\ Registration(received.frame)) =>
        /\ sent = << >>
        /\ LastMsg.role = "pi" =>
              (piSocket = received.from /\ clientSocket = before.client)
        /\ LastMsg.role = "client" =>
              (clientSocket = received.from /\ piSocket = before.pi)

\* The first registration as pi, sent while an open connection holds the client slot.
C15_Witness ==
    /\ received # NoMessage
    /\ Registration(received.frame)
    /\ LastMsg.role = "pi"
    /\ before.pi = NULL
    /\ piSocket = received.from
    /\ before.client \notin {NULL, received.from}
    /\ clientSocket = before.client
    /\ readyState[clientSocket] = "OPEN"
    /\ sent = << >>

\* The last step handled a decodable message that names no role and whose
\* type is none of register, offer, answer, ice.
C16_UnknownKind ==
    /\ received # NoMessage
    /\ ~Throws(received.frame)
    /\ LastMsg.role = NONE
    /\ LastMsg.type \notin {"register", "offer", "answer", "ice"}

(***************************************************************************)
(* C16.  Unknown message kind: a decodable message that names no role and  *)
(* whose type is none of register, offer, answer, ice is dropped: nothing  *)
(* is sent, both slots stay as they were and the relay keeps running.      *)
(***************************************************************************)
C16_UnknownKindDropped ==
    C16_UnknownKind =>
        /\ sent = << >>
        /\ piSocket = before.pi
        /\ clientSocket = before.client
        /\ running

\* The pi slot's holder sent {type: "bye"} while both slots held distinct open connections.
C16_Witness ==
    /\ C16_UnknownKind
    /\ LastMsg.type = "bye"
    /\ received.from = piSocket
    /\ clientSocket \notin {NULL, piSocket}
    /\ readyState[clientSocket] = "OPEN"
    /\ sent = << >>

(***************************************************************************)
(* C17.  Slots change only on registration: accepting a connection leaves  *)
(* both slots unchanged and the accepted connection in neither; a slot     *)
(* changes only in a listener run of a message that names that slot's      *)
(* role, and then to the sender (so an offer, answer or ice message        *)
(* without role changes no slot).                                          *)
(***************************************************************************)
C17_SlotsChangeOnlyOnRegistration ==
    [][/\ \A ws \in Conn :
             OnConnection(ws) =>
                /\ UNCHANGED <<piSocket, clientSocket>>
                /\ ws \notin {piSocket', clientSocket'}
       /\ piSocket' # piSocket =>
             /\ received' # NoMessage
             /\ JSONparse(received'.frame).role = "pi"
             /\ piSocket' = received'.from
       /\ clientSocket' # clientSocket =>
             /\ received' # NoMessage
             /\ JSONparse(received'.frame).role = "client"
             /\ clientSocket' = received'.from]_vars

\* An answer without role, sent by the client slot's holder, was forwarded
\* to the pi slot's holder and both slots are as they were before.
C17_Witness ==
    /\ LastForwardable
    /\ LastMsg.type = "answer"
    /\ LastMsg.role = NONE
    /\ received.from = clientSocket
    /\ piSocket \notin {NULL, clientSocket}
    /\ before = [pi |-> piSocket, client |-> clientSocket]
    /\ Len(sent) = 1
    /\ sent[1].to = piSocket
    /\ sent[1].delivered

(***************************************************************************)
(* C18.  Single role per connection: no connection holds the pi slot and   *)
(* the client slot at the same time.                                       *)
(***************************************************************************)
C18_OneRolePerConnection ==
    piSocket # NULL => piSocket # clientSocket

\* The slot a to field names, as it is after the last step.
C19_SlotNamedByTo ==
    IF LastMsg.to = "pi" THEN piSocket ELSE clientSocket

C20_Reconnected(r) ==
    /\ received # NoMessage
    /\ Registration(received.frame)
    /\ LastMsg.role = r
    /\ before[r] \notin {NULL, received.from}
    /\ readyState[before[r]] = "CLOSED"

\* The relay takes a message for the pi slot: an answer, or an ice message with to = pi.
C20_ForPi(msg) ==
    msg.type = "answer" \/ (msg.type = "ice" /\ msg.to = "pi")

(***************************************************************************)
(* C20.  Reconnect: when a new connection registers for a role whose       *)
(* bound connection has disconnected, the slot holds the new connection    *)
(* and the other slot is as it was; a step that is not a listener run      *)
(* (a close, an accept) changes no slot; and every send goes to the        *)
(* current holder of the slot the message is for, so none goes to a        *)
(* connection that was replaced, and it arrives when the holder's          *)
(* transport is open.                                                      *)
(***************************************************************************)
C20_ReconnectRebindsRole ==
    /\ C20_Reconnected("pi") =>
          /\ piSocket = received.from
          /\ clientSocket = before.client
    /\ C20_Reconnected("client") =>
          /\ clientSocket = received.from
          /\ piSocket = before.pi
    /\ received = NoMessage =>
          /\ piSocket = before.pi
          /\ clientSocket = before.client
    /\ \A i \in DOMAIN sent :
          /\ sent[i].to = (IF C20_ForPi(LastMsg) THEN piSocket ELSE clientSocket)
          /\ sent[i].delivered = (readyState[sent[i].to] = "OPEN")

\* The pi peer reconnected: the old pi connection closed, a new, open one
\* registered as pi and holds the slot, and the client slot still holds
\* the open connection it held before.
C20_Witness ==
    /\ C20_Reconnected("pi")
    /\ running
    /\ piSocket = received.from
    /\ readyState[piSocket] = "OPEN"
    /\ clientSocket \notin {NULL, piSocket, before.pi}
    /\ clientSocket = before.client
    /\ readyState[clientSocket] = "OPEN"

\* The connections a sequence of sends goes to, in order.
C21_Destinations(sends) ==
    [i \in DOMAIN sends |-> sends[i].to]

(***************************************************************************)
(* C21.  Payload agnosticism: two relays that receive the same connections *)
(* and the same messages, payload contents apart, have the same slots      *)
(* after every step, send to the same connections in every step and end    *)
(* (by an uncaught exception) together.                                    *)
(***************************************************************************)
C21_PayloadAgnostic ==
    /\ twin.pi = piSocket
    /\ twin.client = clientSocket
    /\ C21_Destinations(twin.sent) = C21_Destinations(sent)
    /\ twin.exited = ~running

\* The two relays forwarded frames of different payload, each to the
\* client slot's open connection, which is not the sender.
C21_Witness ==
    /\ Len(sent) = 1
    /\ Len(twin.sent) = 1
    /\ sent[1].frame.payload # twin.sent[1].frame.payload
    /\ sent[1].to = clientSocket
    /\ twin.sent[1].to = clientSocket
    /\ sent[1].from # clientSocket
    /\ sent[1].delivered

\* The listener runs that have started and not yet returned.
C22_InFlight == { c \in Conn : run[c].pc # "idle" }

(***************************************************************************)
(* C22.  Atomic slot access: at most one listener run is in flight, and    *)
(* the socket a run has chosen for its send is the one its branch selects  *)
(* from the slots as they are when the send is made: no registration       *)
(* comes between the slot lookup and the send.                             *)
(***************************************************************************)
C22_AtomicSlotAccess ==
    /\ Cardinality(C22_InFlight) <= 1
    /\ \A c \in Conn :
          run[c].pc = "chosen" =>
              run[c].dest = Route(JSONparse(run[c].frame), piSocket, clientSocket)

\* A run is about to send an answer to the pi slot's holder while two other
\* transports are open and could register.
C22_Witness ==
    \E c \in Conn :
        /\ run[c].pc = "chosen"
        /\ run[c].frame.type = "answer"
        /\ run[c].dest = piSocket
        /\ piSocket \notin {NULL, c}
        /\ \A d \in Conn : readyState[d] = "OPEN"

(***************************************************************************)
(* C23.  Last registration wins: a slot is empty as long as no message     *)
(* naming its role has been handled, and otherwise holds the connection    *)
(* whose message naming that role was handled last (so a connection that   *)
(* lost the slot has it again once it registers again).                    *)
(***************************************************************************)
C23_LastRegistrationWins ==
    /\ piSocket = lastReg.pi
    /\ clientSocket = lastReg.client

\* A registration as client has just taken the slot from another connection,
\* whose transport is still open.
C23_Witness ==
    /\ received # NoMessage
    /\ LastMsg.role = "client"
    /\ before.client \notin {NULL, received.from}
    /\ readyState[before.client] = "OPEN"
    /\ lastReg.client = received.from
    /\ clientSocket = received.from

(***************************************************************************)
(* C24.  A connection that has never sent a message naming role pi or      *)
(* client is sent nothing by the relay, whatever it and the others send    *)
(* (so a peer that offers without registering gets no answer).             *)
(***************************************************************************)
C24_NeverRegisteredReceivesNothing ==
    \A i \in DOMAIN sent : role[sent[i].to] # "unassigned"

\* An answer is forwarded to the registered pi while an open connection
\* that never registered looks on.
C24_Witness ==
    /\ LastForwardable
    /\ LastMsg.type = "answer"
    /\ Len(sent) = 1
    /\ sent[1].to = piSocket
    /\ sent[1].delivered
    /\ role[piSocket] = "pi"
    /\ \E c \in Conn : readyState[c] = "OPEN" /\ role[c] = "unassigned"

\* The last step handled a decodable message that names a role and is an
\* offer, answer or ice message as well.
C25_RoleAndType ==
    /\ LastForwardable
    /\ LastMsg.role \in {"pi", "client"}

\* The slot such a message is sent to, read after the step
\* (these frames carry no to field, so ice goes to the client slot).
C25_SlotAfter ==
    IF LastMsg.type = "answer" THEN piSocket ELSE clientSocket

(***************************************************************************)
(* C25.  Registration precedes routing within one message: a message       *)
(* that names a role and is an offer, answer or ice puts its sender in     *)
(* the slot first and is then sent to the holder of the slot its type      *)
(* selects, read after the assignment; so {role: client, type: offer}      *)
(* comes back to the connection that sent it.                              *)
(***************************************************************************)
C25_RegistrationPrecedesRouting ==
    C25_RoleAndType =>
        /\ LastMsg.role = "pi" => piSocket = received.from
        /\ LastMsg.role = "client" => clientSocket = received.from
        /\ IF C25_SlotAfter = NULL
           THEN sent = << >>
           ELSE Len(sent) = 1 /\ sent[1].to = C25_SlotAfter
        /\ (LastMsg.role = "client" /\ LastMsg.type = "offer") =>
              sent = << [to |-> received.from, from |-> received.from,
                         frame |-> received.frame, delivered |-> TRUE] >>

\* A connection that did not hold the client slot sent {role: client,
\* type: offer} and got the offer back.
C25_Witness ==
    /\ C25_RoleAndType
    /\ LastMsg.role = "client"
    /\ LastMsg.type = "offer"
    /\ before.client # received.from
    /\ Len(sent) = 1
    /\ sent[1].to = received.from
    /\ sent[1].delivered

(***************************************************************************)
(* C26.  End-to-end handshake between the pi script and a client, both     *)
(* transports staying open: if the client slot was occupied when the       *)
(* relay handled the pi's offer, the client has received the offer, and    *)
(* an answer the client sends eventually reaches the pi; if the client     *)
(* slot was empty when the offer was handled, no answer ever reaches the   *)
(* pi.                                                                     *)
(***************************************************************************)
C26_Handshake ==
    /\ (hs.offer = "client bound") ~> (OfferFrame \in hs.inbox[ClientConn])
    /\ (hs.client = "answered") ~> (AnswerFrame \in hs.inbox[PiConn])
    /\ [](hs.offer = "no client" => AnswerFrame \notin hs.inbox[PiConn])

\* The client was registered when the offer was handled, has received the
\* offer and replied, and the pi has received the answer.
C26_Witness ==
    /\ hs.offer = "client bound"
    /\ OfferFrame \in hs.inbox[ClientConn]
    /\ hs.client = "answered"
    /\ AnswerFrame \in hs.inbox[PiConn]

\* The start() calls suspended at an await.
C27_InFlight == {i \in Starts : demo.at[i] \notin {"idle", "done"}}

\* C27: for every interleaving of start() and stop() calls on the demo page,
\* once no start() is in flight and the last call was stop(), pc is null,
\* statsInterval is null and no stats timer is still running; and at most one
\* stats timer exists at any time.
C27_StopLeavesNothingRunning ==
    /\ (C27_InFlight = {} /\ demo.last = "stop")
           => (demo.pc = NULL /\ demo.statsInterval = NULL /\ demo.timers = {})
    /\ Cardinality(demo.timers) <= 1

====
